---- MODULE Spec2Model ----
(***************************************************************************)
(* Etch-a-Sketch for the PyBadge: the tone scheduler (src/audio.py, and    *)
(* its copy AudioHelper in src/code.py), the button checker (src/input.py, *)
(* and its copy in src/code.py) and the shake detector of main_loop        *)
(* (src/code.py).                                                          *)
(*                                                                         *)
(* Time is counted in units of TICK_RATE_S (0.1 s): a note of 0.2 s lasts  *)
(* 2 units, the Select long press of 2.0 s lasts 20 units.                 *)
(*                                                                         *)
(* The specifications share the variables:                                 *)
(*   SpecAudio    the Audio class driven through play_tone and tick,       *)
(*   SpecNotes    the Audio class driven through play_note and tick,       *)
(*   SpecDrain    the Audio class ticked in the rhythm of main_loop,       *)
(*   SpecInput    the ButtonPress class driven by raw button registers,    *)
(*   SpecHold     the ButtonPress class with one long-press button held,   *)
(*   SpecLeds     show_color_on_leds called with colours and led counts,   *)
(*   SpecDraw     the cursor of the Draw class (src/draw.py),              *)
(*   SpecWireless Wireless.try_connect (src/wireless.py),                  *)
(*   Spec         main_loop of src/code.py.                                *)
(***************************************************************************)
EXTENDS Integers, Sequences, FiniteSets, TLC

VARIABLES
    now,             \* time.monotonic(), in units of TICK_RATE_S
    pc,              \* position of the driver / of main_loop
    tone_player,     \* the Audio / AudioHelper object and its output device
    button_checker,  \* the ButtonPress object
    events,          \* callbacks reached by the last check_pressed
    shake_counter,   \* main_loop local
    no_shake_counter,\* main_loop local
    prev_num_leds,   \* main_loop local
    prev_acc,        \* main_loop locals prev_X, prev_Y, prev_Z
    cur_color_idx,   \* module global of code.py
    neopixel,        \* last frame written to the led strip
    drawer,          \* the Draw object
    sig,             \* what the shake branch of the last iteration dispatched
    last_call,       \* observer: the last Audio method called by the driver
    req_log,         \* observer: every (freq, time) requested, in call order
    start_log,       \* observer: every (freq, time) started, in start order
    hold_start,      \* observer: clock value of the first check of the current hold
    hold_len,        \* observer: consecutive checks that saw the button's bit set
    lp_count,        \* observer: long presses fired during the current hold
    lp_last,         \* observer: clock value of the last long press of the hold
    run,             \* observer: consecutive shaking samples since shake_counter = 0
    calm_run,        \* observer: consecutive calm samples
    wireless         \* the Wireless object, its esp and the call of try_connect

vars == <<now, pc, tone_player, button_checker, events, shake_counter,
          no_shake_counter, prev_num_leds, prev_acc, cur_color_idx, neopixel,
          drawer, sig, last_call, req_log, start_log, hold_start, hold_len,
          lp_count, lp_last, run, calm_run, wireless>>

audioVars == <<tone_player, last_call, req_log, start_log>>
inputVars == <<button_checker, events, hold_start, hold_len, lp_count, lp_last>>
loopVars  == <<shake_counter, no_shake_counter, prev_num_leds, prev_acc,
               cur_color_idx, neopixel, drawer, sig, run, calm_run>>

----------------------------------------------------------------------------
(* Bounds of the exploration *)

MaxTime  == 6    \* SpecAudio: the clock stops advancing here
MaxStep  == 2    \* largest clock advance between two calls / two iterations
MaxStart == 1    \* the clock starts anywhere in 0..MaxStart
MaxNotes == 3    \* SpecAudio: requests made by the driver
MaxDur   == 2    \* SpecAudio: longest requested duration

(* Frequencies the driver of SpecAudio requests: a rest and A4 *)
Freqs == {0, 440}
Durs  == 1..MaxDur

----------------------------------------------------------------------------
(* The tone scheduler: class Audio of src/audio.py *)

(* The object after construction.  audio is the output device: the        *)
(* frequency it is looping, 0 when it is silent.  cmds and began are what  *)
(* the calls of the current step told the device and which notes they      *)
(* started; overlap records a play command given while a note was playing  *)
(* or the device still looping, raised an exception that escaped a method. *)
AudioInit ==
    [playing |-> FALSE, prev_time |-> 0, prev_note_len_s |-> 0,
     note_queue |-> <<>>, audio |-> 0,
     cmds |-> <<>>, began |-> <<>>, overlap |-> FALSE, raised |-> FALSE]

(* self.audio.play(sine_wave, loop=True) *)
audio_play(a, freq_hz) ==
    [a EXCEPT !.audio = freq_hz,
              !.cmds = Append(@, "play"),
              !.overlap = @ \/ a.audio # 0 \/ a.playing]

(* self.audio.stop() *)
audio_stop(a) ==
    [a EXCEPT !.audio = 0, !.cmds = Append(@, "stop")]

(* A play_tone that drops a rest requested while nothing is playing *)
play_tone_rest_dropped(a, freq_hz_in, time_s, t) ==
    LET freq_hz == IF freq_hz_in > 0 THEN freq_hz_in ELSE 0
    IN  IF a.playing
        THEN [a EXCEPT !.note_queue = Append(@, <<freq_hz, time_s>>)]
        ELSE IF freq_hz # 0
        THEN [audio_play(a, freq_hz) EXCEPT
                            !.prev_time = t,
                            !.prev_note_len_s = time_s,
                            !.playing = TRUE,
                            !.began = Append(@, <<freq_hz, time_s>>)]
        ELSE a

(* Audio.play_tone(freq_hz, time_s), called when the clock reads t *)
play_tone(a, freq_hz_in, time_s, t) ==
    LET freq_hz == IF freq_hz_in > 0 THEN freq_hz_in ELSE 0
    IN  IF a.playing
        THEN [a EXCEPT !.note_queue = Append(@, <<freq_hz, time_s>>)]
        ELSE LET a1 == IF freq_hz # 0 THEN audio_play(a, freq_hz) ELSE a
             IN  [a1 EXCEPT !.prev_time = t,
                            !.prev_note_len_s = time_s,
                            !.playing = TRUE,
                            !.began = Append(@, <<freq_hz, time_s>>)]

(* A stop() that clears playing without telling the device *)
stop_flag_only(a) ==
    [a EXCEPT !.playing = FALSE]

(* Audio.stop() *)
stop(a) ==
    [audio_stop(a) EXCEPT !.playing = FALSE]

(* An expiry test that lets the note sound one clock unit too long *)
note_expired_late(a, t) ==
    t - a.prev_time > a.prev_note_len_s

(* The expiry test of tick: time.monotonic() - prev_time >= prev_note_len_s *)
note_expired(a, t) ==
    t - a.prev_time >= a.prev_note_len_s

(* A pop() from the wrong end of the queue *)
next_note_newest(note_queue) == note_queue[Len(note_queue)]

(* The note that note_queue.pop(0) returns *)
next_note(note_queue) == Head(note_queue)

(* A tick that starts the queued note only on the tick after the stop *)
tick_elif(a, t) ==
    IF a.playing
    THEN IF note_expired(a, t) THEN stop(a) ELSE a
    ELSE IF Len(a.note_queue) > 0
         THEN play_tone([a EXCEPT !.note_queue = Tail(@)],
                        next_note(a.note_queue)[1], next_note(a.note_queue)[2], t)
         ELSE a

(* Audio.tick(), called when the clock reads t *)
tick(a, t) ==
    LET a1 == IF a.playing /\ note_expired(a, t) THEN stop(a) ELSE a
    IN  IF ~a1.playing /\ Len(a1.note_queue) > 0
        THEN play_tone([a1 EXCEPT !.note_queue = Tail(@)],
                       next_note(a1.note_queue)[1], next_note(a1.note_queue)[2], t)
        ELSE a1

(* A step starts with an empty record of device commands and started notes *)
Fresh(a) == [a EXCEPT !.cmds = <<>>, !.began = <<>>]

----------------------------------------------------------------------------
(* SpecAudio: a driver calls play_tone and tick as the clock advances *)

NoCall == [op |-> "none", freq |-> 0, time |-> 0]

RequestNote(f, d) ==
    /\ pc = "audio"
    /\ Len(req_log) < MaxNotes
    /\ tone_player' = play_tone(Fresh(tone_player), f, d, now)
    /\ last_call' = [op |-> "play_tone", freq |-> f, time |-> d]
    /\ req_log' = Append(req_log, <<f, d>>)
    /\ start_log' = start_log \o tone_player'.began
    /\ UNCHANGED <<wireless, now, pc, inputVars, loopVars>>

AudioTick ==
    /\ pc = "audio"
    /\ tone_player' = tick(Fresh(tone_player), now)
    /\ last_call' = [op |-> "tick", freq |-> 0, time |-> 0]
    /\ start_log' = start_log \o tone_player'.began
    /\ UNCHANGED <<wireless, now, pc, req_log, inputVars, loopVars>>

AudioAdvance(dt) ==
    /\ pc = "audio"
    /\ now + dt <= MaxTime
    /\ now' = now + dt
    /\ tone_player' = Fresh(tone_player)
    /\ last_call' = NoCall
    /\ UNCHANGED <<wireless, pc, req_log, start_log, inputVars, loopVars>>

----------------------------------------------------------------------------
(* SpecDrain: the tone scheduler in the rhythm of main_loop, lines 450..492 *)
(* of src/code.py: tick, then sleep one TICK_RATE_S, for ever.  Notes are  *)
(* requested early on and then no more.                                    *)

MaxDrainNotes == 2   \* notes requested in all
RequestsUntil == 1   \* no note is requested after this clock value

(* The clock value by which every requested note has run out *)
DrainTime == RequestsUntil + MaxDrainNotes * MaxDur + 1

DrainRequest(f, d) ==
    /\ pc \in {"drain_tick", "drain_sleep"}
    /\ Len(req_log) < MaxDrainNotes
    /\ now <= RequestsUntil
    /\ tone_player' = play_tone(Fresh(tone_player), f, d, now)
    /\ last_call' = [op |-> "play_tone", freq |-> f, time |-> d]
    /\ req_log' = Append(req_log, <<f, d>>)
    /\ start_log' = start_log \o tone_player'.began
    /\ UNCHANGED <<wireless, now, pc, inputVars, loopVars>>

(* Line 452: tone_player.tick() *)
DrainTick ==
    /\ pc = "drain_tick"
    /\ tone_player' = tick(Fresh(tone_player), now)
    /\ last_call' = [op |-> "tick", freq |-> 0, time |-> 0]
    /\ start_log' = start_log \o tone_player'.began
    /\ pc' = "drain_sleep"
    /\ UNCHANGED <<wireless, now, req_log, inputVars, loopVars>>

(* Line 492: time.sleep(TICK_RATE_S) *)
DrainSleep ==
    /\ pc = "drain_sleep"
    /\ now < DrainTime
    /\ now' = now + 1
    /\ pc' = "drain_tick"
    /\ UNCHANGED <<wireless, audioVars, inputVars, loopVars>>

----------------------------------------------------------------------------
(* The button checker: classes Button and ButtonPress of src/input.py *)

None == "None"

(* Units of TICK_RATE_S in the default long_press_time_s = 1.0 and in the  *)
(* 2.0 s that main_loop sets for Select                                    *)
DefaultLongPressTime == 10
SelectLongPressTime  == 20

(* Button.__init__(name, debounce, register_bit) *)
Button(name, debounce, register_bit) ==
    [name |-> name, debounce |-> debounce, up_callback |-> None,
     down_callback |-> None, register_bit |-> register_bit,
     long_press_callback |-> None,
     long_press_time_s |-> DefaultLongPressTime]

(* ButtonPress.buttons *)
buttons ==
    << Button("B", TRUE, 1),
       Button("A", TRUE, 2),
       Button("Start", TRUE, 4),
       Button("Select", TRUE, 8),
       Button("Right", FALSE, 16),
       Button("Down", FALSE, 32),
       Button("Up", FALSE, 64),
       Button("Left", FALSE, 128) >>

ButtonNames == {buttons[i].name : i \in 1..Len(buttons)}

(* ButtonPress.button_from_name: the index of the button called name *)
button_from_name(name) ==
    CHOOSE i \in 1..Len(buttons) : buttons[i].name = name

(* main_loop's registration of the callbacks, lines 415..422 of code.py *)
ConfiguredButtons ==
    [i \in 1..Len(buttons) |->
        LET b == buttons[i]
        IN  CASE b.name = "Up"     -> [b EXCEPT !.down_callback = "move_up"]
              [] b.name = "Down"   -> [b EXCEPT !.down_callback = "move_down"]
              [] b.name = "Left"   -> [b EXCEPT !.down_callback = "move_left"]
              [] b.name = "Right"  -> [b EXCEPT !.down_callback = "move_right"]
              [] b.name = "B"      -> [b EXCEPT !.down_callback = "on_btn_B"]
              [] b.name = "A"      -> [b EXCEPT !.down_callback = "on_btn_A"]
              [] b.name = "Select" ->
                     [b EXCEPT !.long_press_time_s = SelectLongPressTime,
                               !.long_press_callback = "on_shake"]
              [] OTHER -> b]

(* ButtonPress.__init__, over the button table btns *)
ButtonPressInit(btns) ==
    [buttons |-> btns,
     prev_button_status |-> [n \in ButtonNames |-> FALSE],
     long_press_status |-> [n \in ButtonNames |-> 0]]

(* btn_register & register_bit, register_bit a power of two *)
BitSet(btn_register, register_bit) ==
    (btn_register \div register_bit) % 2 = 1

(* A down test that forgets the debounce *)
emits_down_always(debounce, prev) == TRUE

(* A down test that debounces every button *)
emits_down_debounced(debounce, prev) == ~prev

(* The test of line 71 of input.py: the down callback runs *)
emits_down(debounce, prev) ==
    ~debounce \/ (debounce /\ ~prev)

(* The test of line 81 of input.py: the up callback runs *)
emits_up(debounce, prev) ==
    debounce /\ prev

(* A release that leaves the long-press anchor armed *)
anchor_kept_on_release(has_callback, lps) == lps

(* Lines 77..80 of input.py: long_press_status of a button whose bit is    *)
(* clear                                                                   *)
anchor_on_release(has_callback, lps) ==
    IF has_callback /\ lps > 0 THEN 0 ELSE lps

(* An anchor that survives the long press it timed *)
anchor_kept_after_fire(lps) == lps

(* Line 69: the anchor after a long press has fired *)
anchor_after_fire(lps) == 0

(* One iteration of the for loop of check_pressed: the button at index    *)
(* btn, with cur_time read before the loop.  calls lists what the          *)
(* iteration passed to exec_if_not_none, as <<button, kind, callback>>.    *)
check_button(bc, btn, btn_register, cur_time) ==
    LET cur_btn == bc.buttons[btn]
        nm      == cur_btn.name
        lps     == bc.long_press_status[nm]
        prev    == bc.prev_button_status[nm]
        has_cb  == cur_btn.long_press_callback # None
    IN  IF BitSet(btn_register, cur_btn.register_bit)
        THEN LET fire == /\ has_cb
                         /\ lps > 0
                         /\ cur_time - lps >= cur_btn.long_press_time_s
                 lps1 == IF has_cb
                         THEN IF lps > 0
                              THEN IF fire THEN anchor_after_fire(lps) ELSE lps
                              ELSE cur_time
                         ELSE lps
                 down == emits_down(cur_btn.debounce, prev)
             IN  [bc |-> [bc EXCEPT
                            !.long_press_status[nm] = lps1,
                            !.prev_button_status[nm] = IF down THEN TRUE ELSE @],
                  calls |->
                    (IF fire
                     THEN <<<<nm, "long_press", cur_btn.long_press_callback>>>>
                     ELSE <<>>)
                    \o
                    (IF down
                     THEN <<<<nm, "down", cur_btn.down_callback>>>>
                     ELSE <<>>)]
        ELSE LET up == emits_up(cur_btn.debounce, prev)
             IN  [bc |-> [bc EXCEPT
                            !.long_press_status[nm] = anchor_on_release(has_cb, lps),
                            !.prev_button_status[nm] = IF up THEN FALSE ELSE @],
                  calls |->
                    IF up THEN <<<<nm, "up", cur_btn.up_callback>>>> ELSE <<>>]

RECURSIVE check_from(_, _, _, _, _)
check_from(bc, calls, btn, btn_register, cur_time) ==
    IF btn > Len(bc.buttons)
    THEN [bc |-> bc, calls |-> calls]
    ELSE LET r == check_button(bc, btn, btn_register, cur_time)
         IN  check_from(r.bc, calls \o r.calls, btn + 1, btn_register, cur_time)

(* ButtonPress.check_pressed(btn_register), the clock reading cur_time:   *)
(* the new state of the checker and the callbacks it ran, in order         *)
check_pressed(bc, btn_register, cur_time) ==
    check_from(bc, <<>>, 1, btn_register, cur_time)

----------------------------------------------------------------------------
(* SpecInput: a driver feeds raw button registers to check_pressed, one    *)
(* per tick, as the clock advances                                         *)

MaxInputTime == 24   \* SpecInput: the clock stops advancing here
HoldCap      == 3    \* hold_len counts the checks of a hold up to here

(* Raw registers the driver feeds: nothing, B, Select, Right, B+Select,    *)
(* Select+Right, A+Up, every button                                        *)
Registers == {0, 1, 8, 16, 9, 24, 66, 255}

(* Buttons main_loop gives a long-press callback *)
LongPressNames ==
    {ConfiguredButtons[i].name : i \in
        {j \in 1..Len(buttons) : ConfiguredButtons[j].long_press_callback # None}}

Emitted(calls, name, kind) ==
    \E i \in 1..Len(calls) : calls[i][1] = name /\ calls[i][2] = kind

CountEmitted(calls, name, kind) ==
    Cardinality({i \in 1..Len(calls) : calls[i][1] = name /\ calls[i][2] = kind})

RegisterBit(name) == buttons[button_from_name(name)].register_bit

(* The observers of a check: how long each button has been held, when the  *)
(* hold of a long-press button began, how often it fired during the hold   *)
ObserveCheck(btn_register, calls) ==
    /\ hold_len' = [n \in ButtonNames |->
          IF BitSet(btn_register, RegisterBit(n))
          THEN IF hold_len[n] < HoldCap THEN hold_len[n] + 1 ELSE HoldCap
          ELSE 0]
    /\ hold_start' = [n \in LongPressNames |->
          IF BitSet(btn_register, RegisterBit(n))
          THEN IF hold_start[n] = -1 THEN now ELSE hold_start[n]
          ELSE -1]
    /\ lp_count' = [n \in LongPressNames |->
          IF BitSet(btn_register, RegisterBit(n))
          THEN (IF hold_start[n] = -1 THEN 0 ELSE lp_count[n])
               + CountEmitted(calls, n, "long_press")
          ELSE 0]
    /\ lp_last' = [n \in LongPressNames |->
          IF BitSet(btn_register, RegisterBit(n))
          THEN IF Emitted(calls, n, "long_press") THEN now
               ELSE IF hold_start[n] = -1 THEN -1 ELSE lp_last[n]
          ELSE -1]

CheckPressed(btn_register) ==
    /\ pc = "check"
    /\ LET r == check_pressed(button_checker, btn_register, now)
       IN  /\ button_checker' = r.bc
           /\ events' = r.calls
           /\ ObserveCheck(btn_register, r.calls)
    /\ pc' = "wait"
    /\ UNCHANGED <<wireless, now, audioVars, loopVars>>

InputSleep(dt) ==
    /\ pc = "wait"
    /\ now + dt <= MaxInputTime
    /\ now' = now + dt
    /\ pc' = "check"
    /\ UNCHANGED <<wireless, audioVars, inputVars, loopVars>>

----------------------------------------------------------------------------
(* SpecWireless: Wireless.try_connect of src/wireless.py.  A driver calls  *)
(* try_connect; each pass of its while loop is one step, and the access    *)
(* point decides whether connect_AP raises RuntimeError or connects.       *)

MaxCalls    == 3   \* calls of try_connect
MaxAttempts == 6   \* passes of the while loop explored in one call

None_result == "none"

(* The object after __init__.  in_call says that try_connect is running,   *)
(* is_connected is esp.is_connected, failed counts the RuntimeErrors of    *)
(* the running call, result is what the last call returned.                *)
WirelessInit ==
    [connected |-> FALSE, in_call |-> FALSE, log |-> FALSE, max_tries |-> 0,
     is_connected |-> FALSE, failed |-> 0, calls |-> 0, result |-> None_result]

(* Lines 17..23: the call, up to the while loop *)
try_connect_begin(w, log, is_connected) ==
    [w EXCEPT !.in_call = TRUE, !.log = log, !.max_tries = 3,
              !.is_connected = is_connected, !.failed = 0,
              !.calls = @ + 1, !.result = None_result]

(* Lines 26..33: one pass of the while loop in which connect_AP raises     *)
(* RuntimeError                                                            *)
connect_raises(w) ==
    IF w.max_tries < 0 /\ w.log
    THEN [w EXCEPT !.in_call = FALSE, !.result = "False", !.failed = @ + 1]
    ELSE [w EXCEPT !.failed = @ + 1]

(* Lines 26..27: one pass of the while loop in which connect_AP returns *)
connect_succeeds(w) == [w EXCEPT !.is_connected = TRUE]

(* Lines 35..39: the loop has ended *)
try_connect_end(w) ==
    [w EXCEPT !.connected = TRUE, !.in_call = FALSE, !.result = "True"]

TryConnect(log, is_connected) ==
    /\ pc = "wireless"
    /\ ~wireless.in_call
    /\ wireless.calls < MaxCalls
    /\ wireless' = try_connect_begin(wireless, log, is_connected)
    /\ UNCHANGED <<now, pc, audioVars, inputVars, loopVars>>

ConnectAP(raises) ==
    /\ pc = "wireless"
    /\ wireless.in_call
    /\ ~wireless.is_connected
    /\ wireless.failed < MaxAttempts
    /\ wireless' = IF raises THEN connect_raises(wireless)
                   ELSE connect_succeeds(wireless)
    /\ UNCHANGED <<now, pc, audioVars, inputVars, loopVars>>

ConnectDone ==
    /\ pc = "wireless"
    /\ wireless.in_call
    /\ wireless.is_connected
    /\ wireless' = try_connect_end(wireless)
    /\ UNCHANGED <<now, pc, audioVars, inputVars, loopVars>>

----------------------------------------------------------------------------
(* SpecHold: check_pressed driven with Select alone, its long-press        *)
(* threshold set to a few clock units so that one hold can outlast several *)
(* thresholds.                                                             *)

MaxHoldTime == 10   \* SpecHold: the clock stops advancing here

(* Values of long_press_time_s the driver sets for Select *)
HoldTimes == {2, 3}

(* Raw registers the driver feeds: nothing, Select *)
HoldRegisters == {0, 8}

(* The button table with a long-press callback on Select and threshold *)
(* long_press_time_s                                                       *)
HoldButtons(long_press_time_s) ==
    [i \in 1..Len(buttons) |->
        IF buttons[i].name = "Select"
        THEN [buttons[i] EXCEPT !.long_press_time_s = long_press_time_s,
                                !.long_press_callback = "on_shake"]
        ELSE buttons[i]]

HoldCheck(btn_register) ==
    /\ pc = "hold_check"
    /\ LET r == check_pressed(button_checker, btn_register, now)
       IN  /\ button_checker' = r.bc
           /\ events' = r.calls
           /\ ObserveCheck(btn_register, r.calls)
    /\ pc' = "hold_wait"
    /\ UNCHANGED <<wireless, now, audioVars, loopVars>>

HoldSleep(dt) ==
    /\ pc = "hold_wait"
    /\ now + dt <= MaxHoldTime
    /\ now' = now + dt
    /\ pc' = "hold_check"
    /\ UNCHANGED <<wireless, audioVars, inputVars, loopVars>>

----------------------------------------------------------------------------
(* Note names: play_note and _frequency_from_note_and_octave of            *)
(* src/audio.py.  A string is a sequence of one-character strings.         *)

all_notes ==
    << <<"A">>, <<"A", "#">>, <<"B">>, <<"C">>, <<"C", "#">>, <<"D">>,
       <<"D", "#">>, <<"E">>, <<"F">>, <<"F", "#">>, <<"G">>, <<"G", "#">> >>

(* str.upper() on one character *)
UpperChar(c) ==
    CASE c = "a" -> "A" [] c = "b" -> "B" [] c = "c" -> "C" [] c = "d" -> "D"
      [] c = "e" -> "E" [] c = "f" -> "F" [] c = "g" -> "G" [] c = "r" -> "R"
      [] OTHER -> c

Upper(str) == [i \in 1..Len(str) |-> UpperChar(str[i])]

Digits == <<"0", "1", "2", "3", "4", "5", "6", "7", "8", "9">>

IsDigit(c) == \E i \in 1..Len(Digits) : Digits[i] = c

(* int(c) for a digit c *)
DigitValue(c) == (CHOOSE i \in 1..Len(Digits) : Digits[i] = c) - 1

(* int(440 * math.pow(2, (key - 49) / 12)) for the keys -8..111 that a     *)
(* note of all_notes and a one-digit octave give                           *)
KeyFrequency ==
  << 16, 17, 18, 19, 20, 21, 23, 24, 25, 27, 29, 30,
     32, 34, 36, 38, 41, 43, 46, 48, 51, 55, 58, 61,
     65, 69, 73, 77, 82, 87, 92, 97, 103, 110, 116, 123,
     130, 138, 146, 155, 164, 174, 184, 195, 207, 220, 233, 246,
     261, 277, 293, 311, 329, 349, 369, 391, 415, 440, 466, 493,
     523, 554, 587, 622, 659, 698, 739, 783, 830, 880, 932, 987,
     1046, 1108, 1174, 1244, 1318, 1396, 1479, 1567, 1661, 1760, 1864, 1975,
     2093, 2217, 2349, 2489, 2637, 2793, 2959, 3135, 3322, 3520, 3729, 3951,
     4186, 4434, 4698, 4978, 5274, 5587, 5919, 6271, 6644, 7040, 7458, 7902,
     8372, 8869, 9397, 9956, 10548, 11175, 11839, 12543, 13289, 14080, 14917,
     15804 >>

(* An octave that is the same for every note of the scale *)
octave_of_unadjusted(note_idx, octave) == octave

(* Lines 39..40: A, A# and B belong to the octave that starts at the C     *)
(* below them                                                              *)
octave_of(note_idx, octave) == IF note_idx < 3 THEN octave + 1 ELSE octave

(* Audio._frequency_from_note_and_octave(note_name, octave) *)
frequency_from_note_and_octave(note_name, octave_in) ==
    LET note == Upper(note_name)
    IN  IF ~\E i \in 1..Len(all_notes) : all_notes[i] = note
        THEN 0
        ELSE LET note_idx == (CHOOSE i \in 1..Len(all_notes) : all_notes[i] = note) - 1
                 octave == octave_of(note_idx, octave_in)
                 octave_offset == (octave - 1) * 12
                 converted_key == note_idx + octave_offset + 1
             IN  KeyFrequency[converted_key + 9]

(* A length test that lets four characters through *)
too_long_above_four(note_and_octave) == Len(note_and_octave) > 4

(* The test of line 68 *)
too_long(note_and_octave) == Len(note_and_octave) > 3

(* Audio.play_note(note_and_octave, time_s), the clock reading t.  int()  *)
(* of a last character that is no digit raises ValueError.                 *)
play_note(a, note_and_octave, time_s, t) ==
    LET n == Len(note_and_octave)
    IN  IF too_long(note_and_octave)
        THEN a
        ELSE IF n > 1 /\ ~IsDigit(note_and_octave[n])
        THEN [a EXCEPT !.raised = TRUE]
        ELSE LET note_end_idx == IF n = 3 THEN 2 ELSE 1
                 octave == IF n > 1 THEN DigitValue(note_and_octave[n]) ELSE 5
                 note_name == SubSeq(note_and_octave, 1,
                                     IF n < note_end_idx THEN n ELSE note_end_idx)
             IN  play_tone(a, frequency_from_note_and_octave(note_name, octave),
                           time_s, t)

----------------------------------------------------------------------------
(* SpecNotes: a driver calls play_note with note strings, and tick, as the *)
(* clock advances.  An exception that escapes play_note ends the driver.   *)

MaxNoteCalls == 2   \* calls of play_note
MaxNoteTime  == 2   \* the clock stops advancing here

(* "", "H5", "A4", "C5", "C#", "a#4" and "C#55" *)
NoteStrings ==
    { <<>>, <<"H", "5">>, <<"A", "4">>, <<"C", "5">>,
      <<"C", "#">>, <<"a", "#", "4">>, <<"C", "#", "5", "5">> }

(* What a call scheduled: the frequency of the note it started or queued,  *)
(* -1 when it did neither                                                  *)
Scheduled(before, after) ==
    IF after.began # <<>>
    THEN after.began[1][1]
    ELSE IF Len(after.note_queue) > Len(before.note_queue)
    THEN after.note_queue[Len(after.note_queue)][1]
    ELSE -1

PlayNote(s, d) ==
    /\ pc = "notes"
    /\ ~tone_player.raised
    /\ Len(req_log) < MaxNoteCalls
    /\ tone_player' = play_note(Fresh(tone_player), s, d, now)
    /\ last_call' = [op |-> "play_note", note |-> s, time |-> d,
                     freq |-> Scheduled(tone_player, tone_player')]
    /\ req_log' = Append(req_log, <<s, d>>)
    /\ start_log' = start_log \o tone_player'.began
    /\ UNCHANGED <<wireless, now, pc, inputVars, loopVars>>

NoteTick ==
    /\ pc = "notes"
    /\ ~tone_player.raised
    /\ tone_player' = tick(Fresh(tone_player), now)
    /\ last_call' = [op |-> "tick", note |-> <<>>, time |-> 0, freq |-> 0]
    /\ start_log' = start_log \o tone_player'.began
    /\ UNCHANGED <<wireless, now, pc, req_log, inputVars, loopVars>>

NoteAdvance(dt) ==
    /\ pc = "notes"
    /\ ~tone_player.raised
    /\ now + dt <= MaxNoteTime
    /\ now' = now + dt
    /\ tone_player' = Fresh(tone_player)
    /\ last_call' = [op |-> "none", note |-> <<>>, time |-> 0, freq |-> 0]
    /\ UNCHANGED <<wireless, pc, req_log, start_log, inputVars, loopVars>>

----------------------------------------------------------------------------
(* The led strip: show_color_on_leds of src/code.py *)

NUM_LEDS == 5

(* white, red, yellow, green, blue, purple, black *)
COLORS_RGB ==
    << <<255, 255, 255>>, <<255, 0, 0>>, <<255, 180, 0>>, <<0, 255, 0>>,
       <<0, 0, 255>>, <<255, 0, 255>>, <<0, 0, 0>> >>

(* int(c * LED_BRIGHTNESS) with LED_BRIGHTNESS = 0.05 = 5/100 *)
Scaled(c) == (c * 5) \div 100

(* A frame colour that keeps the red, green, blue order of color_rgb *)
new_color_rgb_order(color_rgb) ==
    <<Scaled(color_rgb[1]), Scaled(color_rgb[2]), Scaled(color_rgb[3])>>

(* Lines 384..387: the colour of a lit led, green first *)
new_color(color_rgb) ==
    <<Scaled(color_rgb[2]), Scaled(color_rgb[1]), Scaled(color_rgb[3])>>

(* The frame show_color_on_leds(color_rgb, led_count) writes, together    *)
(* with the led_count and the color_rgb it was asked for                   *)
show_color_on_leds(color_rgb, led_count) ==
    LET led_count_diff == NUM_LEDS - led_count
        blacked == IF led_count < NUM_LEDS
                   THEN {NUM_LEDS - 1 - led : led \in 0..(led_count_diff - 1)}
                   ELSE {}
    IN  [pix |-> [i \in 1..(3 * NUM_LEDS) |->
                    IF ((i - 1) \div 3) \in blacked
                    THEN 0
                    ELSE new_color(color_rgb)[((i - 1) % 3) + 1]],
         led_count |-> led_count,
         color_rgb |-> color_rgb]

(* Colour channels the driver of SpecLeds draws the colour from *)
Channels == {0, 19, 180, 255}

(* SpecLeds: a driver calls show_color_on_leds(color_rgb, led_count) *)
ShowLeds(color_rgb, led_count) ==
    /\ pc = "leds"
    /\ neopixel' = show_color_on_leds(color_rgb, led_count)
    /\ UNCHANGED <<wireless, now, pc, audioVars, inputVars, shake_counter,
                   no_shake_counter, prev_num_leds, prev_acc, cur_color_idx,
                   drawer, sig, run, calm_run>>

----------------------------------------------------------------------------
(* The canvas: class Draw of src/code.py (src/draw.py).  blank says that   *)
(* every pixel of display_bitmap holds off_color_idx.                      *)

DisplayWidth  == 160
DisplayHeight == 128
cursor_sizes  == <<1, 2, 4, 8>>
OffColorIdx   == 6

Min(x, y) == IF x < y THEN x ELSE y
Max(x, y) == IF x > y THEN x ELSE y

(* Draw.reset() *)
reset(d) ==
    [d EXCEPT !.cur_pos = <<DisplayWidth \div 2, DisplayHeight \div 2>>,
              !.blank = TRUE]

(* The Draw object after __init__ *)
DrawInit ==
    reset([cur_cursor_idx |-> 1, cur_cursor_size |-> cursor_sizes[2],
           cur_color_idx |-> 0, cur_pos |-> <<0, 0>>, blank |-> FALSE])

(* Draw.rotate_cursor() *)
rotate_cursor(d) ==
    LET idx  == IF d.cur_cursor_idx + 1 >= Len(cursor_sizes)
                THEN 0 ELSE d.cur_cursor_idx + 1
        x1   == IF d.cur_pos[1] + d.cur_cursor_size >= DisplayWidth
                THEN DisplayWidth - d.cur_cursor_size ELSE d.cur_pos[1]
        y1   == IF d.cur_pos[2] + d.cur_cursor_size >= DisplayHeight
                THEN DisplayHeight - d.cur_cursor_size ELSE d.cur_pos[2]
    IN  [d EXCEPT !.cur_cursor_idx = idx,
                  !.cur_pos = <<x1, y1>>,
                  !.cur_cursor_size = cursor_sizes[idx + 1]]

(* Draw.draw_and_move_cursor(delta_X, delta_Y) *)
draw_and_move_cursor(d, delta_X, delta_Y) ==
    LET sz    == d.cur_cursor_size
        new_X == d.cur_pos[1] + delta_X
        x1    == IF /\ delta_X # 0
                    /\ new_X >= 0
                    /\ new_X + (delta_X * (sz - 1)) < DisplayWidth
                 THEN Max(Min(new_X + (delta_X * (sz - 1)), DisplayWidth - sz), 0)
                 ELSE d.cur_pos[1]
        new_Y == d.cur_pos[2] + delta_Y
        y1    == IF /\ delta_Y # 0
                    /\ new_Y >= 0
                    /\ new_Y + (delta_Y * (sz - 1)) < DisplayHeight
                 THEN Max(Min(new_Y + (delta_Y * (sz - 1)), DisplayHeight - sz), 0)
                 ELSE d.cur_pos[2]
    IN  [d EXCEPT !.blank = @ /\ d.cur_color_idx = OffColorIdx,
                  !.cur_pos = <<x1, y1>>]

(* Draw.set_color(color_idx) *)
set_color(d, color_idx) == [d EXCEPT !.cur_color_idx = color_idx]

(* SpecDraw: a driver moves the cursor, rotates its size and resets the    *)
(* canvas                                                                  *)
Deltas == {-1, 0, 1}

DrawMove(delta_X, delta_Y) ==
    /\ pc = "draw"
    /\ drawer' = draw_and_move_cursor(drawer, delta_X, delta_Y)
    /\ UNCHANGED <<wireless, now, pc, audioVars, inputVars, shake_counter,
                   no_shake_counter, prev_num_leds, prev_acc, cur_color_idx,
                   neopixel, sig, run, calm_run>>

DrawRotate ==
    /\ pc = "draw"
    /\ drawer' = rotate_cursor(drawer)
    /\ UNCHANGED <<wireless, now, pc, audioVars, inputVars, shake_counter,
                   no_shake_counter, prev_num_leds, prev_acc, cur_color_idx,
                   neopixel, sig, run, calm_run>>

DrawReset ==
    /\ pc = "draw"
    /\ drawer' = reset(drawer)
    /\ UNCHANGED <<wireless, now, pc, audioVars, inputVars, shake_counter,
                   no_shake_counter, prev_num_leds, prev_acc, cur_color_idx,
                   neopixel, sig, run, calm_run>>

----------------------------------------------------------------------------
(* The callbacks of src/code.py.  They act on the record m of the objects  *)
(* main_loop works on: tp (tone_player), dr (drawer), color                *)
(* (cur_color_idx), px (the led strip), the locals of main_loop, and sig,  *)
(* the list of what the shake branch dispatched in this iteration.         *)

(* rotate_color() *)
rotate_color(m) ==
    LET c == IF m.color + 1 >= Len(COLORS_RGB) THEN 0 ELSE m.color + 1
    IN  [m EXCEPT !.color = c,
                  !.dr = set_color(@, c),
                  !.px = show_color_on_leds(COLORS_RGB[c + 1], NUM_LEDS)]

(* on_btn_B() *)
on_btn_B(m, t) ==
    [m EXCEPT !.tp = play_note(@, <<"C", "5">>, 1, t),
              !.dr = rotate_cursor(@)]

(* on_btn_A() *)
on_btn_A(m, t) ==
    rotate_color([m EXCEPT !.tp = play_note(@, <<"E", "5">>, 1, t)])

(* on_shake() *)
on_shake(m, t) ==
    LET tp1 == play_note(m.tp, <<"G", "5">>, 2, t)
        tp2 == play_note(tp1, <<"E", "5">>, 2, t)
        tp3 == play_note(tp2, <<"C", "5">>, 2, t)
    IN  [m EXCEPT !.tp = tp3,
                  !.dr = reset(@),
                  !.px = show_color_on_leds(COLORS_RGB[m.color + 1], NUM_LEDS)]

(* exec_if_not_none(to_exec) *)
exec_if_not_none(m, to_exec, t) ==
    CASE to_exec = "move_up"    -> [m EXCEPT !.dr = draw_and_move_cursor(@, 0, -1)]
      [] to_exec = "move_down"  -> [m EXCEPT !.dr = draw_and_move_cursor(@, 0, 1)]
      [] to_exec = "move_left"  -> [m EXCEPT !.dr = draw_and_move_cursor(@, -1, 0)]
      [] to_exec = "move_right" -> [m EXCEPT !.dr = draw_and_move_cursor(@, 1, 0)]
      [] to_exec = "on_btn_B"   -> on_btn_B(m, t)
      [] to_exec = "on_btn_A"   -> on_btn_A(m, t)
      [] to_exec = "on_shake"   -> on_shake(m, t)
      [] OTHER                  -> m

(* The callbacks check_pressed ran, applied in the order it ran them *)
RECURSIVE run_calls(_, _, _)
run_calls(m, calls, t) ==
    IF calls = <<>>
    THEN m
    ELSE run_calls(exec_if_not_none(m, Head(calls)[3], t), Tail(calls), t)

----------------------------------------------------------------------------
(* The shake detector: lines 434..484 of main_loop in src/code.py *)

ACCEL_SHAKE_THRESH == 8

(* ticks_per_sec * SHAKE_TO_CLEAR_TIME_S = (1.0 / 0.1) * 1.5 *)
shake_ticks_to_activate == 15
shake_forgiveness == 2

SHAKE_TUNE == << <<"G", "#", "5">>, <<"F", "5">>, <<"E", "5">>, <<"C", "5">> >>
SHAKE_TUNE_NOTE_LEN_S == 2

Abs(x) == IF x < 0 THEN -x ELSE x

(* int(x / y) for y > 0: truncation towards zero *)
TruncDiv(x, y) == IF x >= 0 THEN x \div y ELSE -((-x) \div y)

(* A shake test that asks for more than the threshold *)
is_shaking_strict(prev, sample) ==
    \/ Abs(prev[1] - sample[1]) > ACCEL_SHAKE_THRESH
    \/ Abs(prev[2] - sample[2]) > ACCEL_SHAKE_THRESH
    \/ Abs(prev[3] - sample[3]) > ACCEL_SHAKE_THRESH

(* The test of line 460 on the sample (x, y, z) against prev_X, prev_Y,    *)
(* prev_Z                                                                  *)
is_shaking(prev, sample) ==
    \/ Abs(prev[1] - sample[1]) >= ACCEL_SHAKE_THRESH
    \/ Abs(prev[2] - sample[2]) >= ACCEL_SHAKE_THRESH
    \/ Abs(prev[3] - sample[3]) >= ACCEL_SHAKE_THRESH

(* A countdown that truncates the part taken off, not the difference *)
countdown_leds_floor_inside(counter) ==
    NUM_LEDS - TruncDiv(counter * NUM_LEDS, shake_ticks_to_activate)

(* int(NUM_LEDS - ((shake_counter / shake_ticks_to_activate) * NUM_LEDS)) *)
countdown_leds(counter) ==
    TruncDiv(NUM_LEDS * shake_ticks_to_activate - counter * NUM_LEDS,
             shake_ticks_to_activate)

(* A trigger test that waits one tick longer *)
activates_late(counter) == counter > shake_ticks_to_activate

(* The test of line 470 *)
activates(counter) == counter >= shake_ticks_to_activate

(* A forgiveness test against a limit that is two too low *)
forgiveness_spent_at_once(no_shake) == no_shake >= shake_forgiveness - 2

(* The test of line 477 *)
forgiveness_spent(no_shake) == no_shake >= shake_forgiveness

(* A change test that reports every led count as new *)
led_count_changed_always(new_num_leds, prev) == TRUE

(* The test of line 465 *)
led_count_changed(new_num_leds, prev) == new_num_leds # prev

(* Lines 461..474: the branch of a shaking sample *)
shake_branch(m, t) ==
    LET new_num_leds == countdown_leds(m.shake_counter)
        changed == led_count_changed(new_num_leds, m.prev_num_leds)
        m1 == IF changed
              THEN [m EXCEPT
                      !.px = show_color_on_leds(COLORS_RGB[m.color + 1], new_num_leds),
                      !.tp = play_note(@, SHAKE_TUNE[(new_num_leds % Len(SHAKE_TUNE)) + 1],
                                       SHAKE_TUNE_NOTE_LEN_S, t),
                      !.sig = @ \o <<"countdown_leds", "countdown_tone">>]
              ELSE m
        m2 == [m1 EXCEPT !.no_shake_counter = 0,
                         !.prev_num_leds = new_num_leds]
    IN  IF activates(m.shake_counter)
        THEN [on_shake(m2, t) EXCEPT !.shake_counter = 0,
                                     !.sig = @ \o <<"on_shake">>]
        ELSE [m2 EXCEPT !.shake_counter = @ + 1]

(* A calm branch that counts the calm sample before it tests the count *)
calm_branch_counts_first(m) ==
    IF m.shake_counter > 0
    THEN LET m1 == [m EXCEPT !.no_shake_counter = @ + 1]
         IN  IF forgiveness_spent(m1.no_shake_counter)
             THEN [m1 EXCEPT
                     !.px = show_color_on_leds(COLORS_RGB[m.color + 1], NUM_LEDS),
                     !.shake_counter = 0,
                     !.sig = @ \o <<"restore_leds">>]
             ELSE m1
    ELSE m

(* Lines 476..480: the branch of a calm sample *)
calm_branch(m) ==
    IF m.shake_counter > 0
    THEN LET m1 == IF forgiveness_spent(m.no_shake_counter)
                   THEN [m EXCEPT
                           !.px = show_color_on_leds(COLORS_RGB[m.color + 1], NUM_LEDS),
                           !.shake_counter = 0,
                           !.sig = @ \o <<"restore_leds">>]
                   ELSE m
         IN  [m1 EXCEPT !.no_shake_counter = @ + 1]
    ELSE m

(* Lines 454..484: one accelerometer sample *)
shake_step(m, sample, t) ==
    LET m1 == IF is_shaking(m.prev_acc, sample)
              THEN shake_branch(m, t)
              ELSE calm_branch(m)
    IN  [m1 EXCEPT !.prev_acc = sample]

----------------------------------------------------------------------------
(* Spec: main_loop of src/code.py.  An iteration is four steps: the        *)
(* buttons, the tone scheduler, the accelerometer, the sleep.  The cursor  *)
(* blink of lines 486..490 only redraws the cursor and is left out.        *)

MaxLoopTime == 17   \* the clock stops advancing here
MaxQueue    == 2    \* the loop is explored while the note queue is this short
PressUntil  == 8    \* no button is down after this clock value

(* Raw registers the loop reads: nothing, A.  A is read down only while    *)
(* the clock is at most PressUntil; the accelerometer is free throughout.  *)
LoopRegisters == {0, 2}

(* Accelerometer samples the loop reads: at rest with 10 and with 7 on the *)
(* z axis, and two samples 9 and 8 away from rest on the x axis.  None is  *)
(* the (0, 0, 0) that prev_X, prev_Y, prev_Z start from, so prev_acc is    *)
(* (0, 0, 0) exactly until the first sample has been read.                 *)
Samples == { <<0, 0, 7>>, <<0, 0, 10>>, <<9, 0, 10>>, <<8, 0, 10>> }

(* The objects and locals of main_loop as one record, and back *)
Loop ==
    [tp |-> Fresh(tone_player), dr |-> drawer, color |-> cur_color_idx,
     px |-> neopixel, shake_counter |-> shake_counter,
     no_shake_counter |-> no_shake_counter, prev_num_leds |-> prev_num_leds,
     prev_acc |-> prev_acc, sig |-> <<>>]

Store(m) ==
    /\ tone_player' = m.tp
    /\ drawer' = m.dr
    /\ cur_color_idx' = m.color
    /\ neopixel' = m.px
    /\ shake_counter' = m.shake_counter
    /\ no_shake_counter' = m.no_shake_counter
    /\ prev_num_leds' = m.prev_num_leds
    /\ prev_acc' = m.prev_acc

(* The loop runs while no exception has escaped and the queue is short *)
Running ==
    /\ ~tone_player.raised
    /\ Len(tone_player.note_queue) <= MaxQueue

(* Lines 414..449: the callbacks, the start-up tune, the first colour *)
Startup ==
    /\ pc = "startup"
    /\ button_checker' = ButtonPressInit(ConfiguredButtons)
    /\ LET tp1 == play_note(Loop.tp, <<"C", "5">>, 2, now)
           tp2 == play_note(tp1, <<"E", "5">>, 2, now)
           tp3 == play_note(tp2, <<"G", "5">>, 2, now)
       IN  Store(rotate_color([Loop EXCEPT !.tp = tp3]))
    /\ pc' = "buttons"
    /\ UNCHANGED <<wireless, now, events, sig, run, calm_run, last_call, req_log,
                   start_log, hold_start, hold_len, lp_count, lp_last>>

(* Line 451: button_checker.check_pressed(gp.get_pressed()) *)
LoopButtons(btn_register) ==
    /\ pc = "buttons"
    /\ Running
    /\ btn_register # 0 => now <= PressUntil
    /\ LET r == check_pressed(button_checker, btn_register, now)
       IN  /\ button_checker' = r.bc
           /\ events' = r.calls
           /\ Store(run_calls(Loop, r.calls, now))
    /\ pc' = "tone"
    /\ UNCHANGED <<wireless, now, sig, run, calm_run, last_call, req_log, start_log,
                   hold_start, hold_len, lp_count, lp_last>>

(* Line 452: tone_player.tick() *)
LoopTone ==
    /\ pc = "tone"
    /\ Running
    /\ tone_player' = tick(Fresh(tone_player), now)
    /\ pc' = "shake"
    /\ UNCHANGED <<wireless, now, inputVars, loopVars, last_call, req_log, start_log>>

(* Lines 454..484: the accelerometer reads sample *)
LoopShake(sample) ==
    /\ pc = "shake"
    /\ Running
    /\ LET m == shake_step(Loop, sample, now)
       IN  /\ Store(m)
           /\ sig' = m.sig
    /\ run' = IF is_shaking(prev_acc, sample)
              THEN IF shake_counter = 0 THEN 1
                   ELSE IF run > 0 THEN run + 1 ELSE 0
              ELSE 0
    /\ calm_run' = IF is_shaking(prev_acc, sample) THEN 0
                   ELSE IF calm_run < shake_forgiveness + 1 THEN calm_run + 1
                   ELSE calm_run
    /\ pc' = "sleep"
    /\ UNCHANGED <<wireless, now, inputVars, last_call, req_log, start_log>>

(* Line 492: time.sleep(TICK_RATE_S), one unit of the clock *)
LoopSleep ==
    /\ pc = "sleep"
    /\ Running
    /\ now + 1 <= MaxLoopTime
    /\ now' = now + 1
    /\ pc' = "buttons"
    /\ UNCHANGED <<wireless, audioVars, inputVars, loopVars>>

----------------------------------------------------------------------------
(* Initial states and specifications *)

InitObjects(btns) ==
    /\ tone_player = AudioInit
    /\ button_checker = ButtonPressInit(btns)
    /\ events = <<>>
    /\ shake_counter = 0
    /\ no_shake_counter = 0
    /\ prev_num_leds = NUM_LEDS
    /\ prev_acc = <<0, 0, 0>>
    /\ cur_color_idx = 0
    /\ neopixel = [pix |-> [i \in 1..(3 * NUM_LEDS) |-> 0], led_count |-> 0,
                   color_rgb |-> <<0, 0, 0>>]
    /\ drawer = DrawInit
    /\ sig = <<>>
    /\ last_call = NoCall
    /\ req_log = <<>>
    /\ start_log = <<>>
    /\ hold_start = [n \in LongPressNames |-> -1]
    /\ hold_len = [n \in ButtonNames |-> 0]
    /\ lp_count = [n \in LongPressNames |-> 0]
    /\ lp_last = [n \in LongPressNames |-> -1]
    /\ run = 0
    /\ calm_run = 0
    /\ wireless = WirelessInit

Init ==
    /\ now \in 1..MaxStart
    /\ pc = "startup"
    /\ InitObjects(buttons)

Next ==
    \/ Startup
    \/ \E btn_register \in LoopRegisters : LoopButtons(btn_register)
    \/ LoopTone
    \/ \E sample \in Samples : LoopShake(sample)
    \/ LoopSleep

Spec == Init /\ [][Next]_vars

InitAudio ==
    /\ now \in 0..MaxStart
    /\ pc = "audio"
    /\ InitObjects(buttons)

NextAudio ==
    \/ \E f \in Freqs, d \in Durs : RequestNote(f, d)
    \/ AudioTick
    \/ \E dt \in 1..MaxStep : AudioAdvance(dt)

SpecAudio == InitAudio /\ [][NextAudio]_vars

InitNotes ==
    /\ now \in 0..MaxStart
    /\ pc = "notes"
    /\ InitObjects(buttons)

NextNotes ==
    \/ \E s \in NoteStrings, d \in Durs : PlayNote(s, d)
    \/ NoteTick
    \/ \E dt \in 1..MaxStep : NoteAdvance(dt)

SpecNotes == InitNotes /\ [][NextNotes]_vars

InitLeds ==
    /\ now = 0
    /\ pc = "leds"
    /\ InitObjects(buttons)

NextLeds ==
    \E r \in Channels, g \in Channels, b \in Channels, led_count \in 0..NUM_LEDS :
        ShowLeds(<<r, g, b>>, led_count)

SpecLeds == InitLeds /\ [][NextLeds]_vars

InitHold ==
    /\ now \in 0..MaxStart
    /\ pc = "hold_check"
    /\ \E long_press_time_s \in HoldTimes :
          InitObjects(HoldButtons(long_press_time_s))

NextHold ==
    \/ \E btn_register \in HoldRegisters : HoldCheck(btn_register)
    \/ \E dt \in 1..MaxStep : HoldSleep(dt)

SpecHold == InitHold /\ [][NextHold]_vars

InitDraw ==
    /\ now = 0
    /\ pc = "draw"
    /\ InitObjects(buttons)

NextDraw ==
    \/ \E delta_X \in Deltas, delta_Y \in Deltas : DrawMove(delta_X, delta_Y)
    \/ DrawRotate
    \/ DrawReset

SpecDraw == InitDraw /\ [][NextDraw]_vars

InitWireless ==
    /\ now = 0
    /\ pc = "wireless"
    /\ InitObjects(buttons)

NextWireless ==
    \/ \E log \in BOOLEAN, is_connected \in BOOLEAN : TryConnect(log, is_connected)
    \/ \E raises \in BOOLEAN : ConnectAP(raises)
    \/ ConnectDone

SpecWireless == InitWireless /\ [][NextWireless]_vars

InitDrain ==
    /\ now \in 0..MaxStart
    /\ pc = "drain_tick"
    /\ InitObjects(buttons)

NextDrain ==
    \/ \E f \in Freqs, d \in Durs : DrainRequest(f, d)
    \/ DrainTick
    \/ DrainSleep

(* The loop never stops calling tick and sleep *)
SpecDrain ==
    /\ InitDrain
    /\ [][NextDrain]_vars
    /\ WF_vars(DrainTick)
    /\ WF_vars(DrainSleep)

InitInput ==
    /\ now \in 0..MaxStart
    /\ pc = "check"
    /\ InitObjects(ConfiguredButtons)

NextInput ==
    \/ \E btn_register \in Registers : CheckPressed(btn_register)
    \/ \E dt \in 1..MaxStep : InputSleep(dt)

SpecInput == InitInput /\ [][NextInput]_vars

----------------------------------------------------------------------------
(* Properties of the tone scheduler, checked under SpecAudio *)

Playback(a) == <<a.playing, a.prev_time, a.prev_note_len_s, a.note_queue, a.audio>>

(* C1: a note of frequency f > 0 and duration d requested while idle is    *)
(* playing at once with prev_note_len_s = d and prev_time = now; a tick    *)
(* with now - prev_time < d leaves it playing, and a tick with             *)
(* now - prev_time >= d stops the output device and clears playing.        *)
C1_RequestPlaysUntilExpiry ==
    [][ /\ \A f \in Freqs, d \in Durs :
            (RequestNote(f, d) /\ f > 0 /\ ~tone_player.playing)
            => /\ tone_player'.playing
               /\ tone_player'.prev_note_len_s = d
               /\ tone_player'.prev_time = now
               /\ tone_player'.audio = f
        /\ (AudioTick /\ tone_player.playing
              /\ now - tone_player.prev_time < tone_player.prev_note_len_s)
            => /\ Playback(tone_player') = Playback(tone_player)
               /\ tone_player'.cmds = <<>>
        /\ (AudioTick /\ tone_player.playing
              /\ now - tone_player.prev_time >= tone_player.prev_note_len_s)
            => /\ tone_player'.cmds # <<>>
               /\ tone_player'.cmds[1] = "stop"
               /\ tone_player.note_queue = <<>>
                    => (~tone_player'.playing /\ tone_player'.audio = 0)
      ]_vars

(* A tone requested while idle has been stopped by the tick at exactly     *)
(* now - prev_time = d                                                     *)
C1_Witness ==
    /\ last_call.op = "tick"
    /\ tone_player.cmds = <<"stop">>
    /\ ~tone_player.playing
    /\ Len(req_log) = 1
    /\ req_log[1][1] > 0
    /\ now - tone_player.prev_time = tone_player.prev_note_len_s

(* C2: the queue is FIFO and lossless: whatever the interleaving of        *)
(* requests and ticks, the notes started so far followed by the notes      *)
(* still queued are exactly the notes requested, in the order requested.   *)
C2_QueueFifoLossless ==
    req_log = start_log \o tone_player.note_queue

(* Two different notes were queued behind a playing one; the one requested *)
(* first has been started and the other one waits                          *)
C2_Witness ==
    /\ Len(req_log) = 3
    /\ Len(start_log) = 2
    /\ tone_player.note_queue = <<req_log[3]>>
    /\ req_log[2] # req_log[3]
    /\ start_log[2] = req_log[2]

(* C3: at most one note sounds on the output device: a play command is     *)
(* never given while a note is playing or the device still loops, and the  *)
(* device loops only while playing is set.                                 *)
C3_OneNoteSounding ==
    /\ ~tone_player.overlap
    /\ tone_player.audio # 0 => tone_player.playing

(* A second tone was started on the device after the first one *)
C3_Witness ==
    /\ Len(start_log) >= 2
    /\ start_log[1][1] > 0
    /\ start_log[2][1] > 0
    /\ tone_player.audio = start_log[2][1]
    /\ "play" \in {tone_player.cmds[i] : i \in 1..Len(tone_player.cmds)}

(* C4: a tick that finds the note expired and the queue non-empty pops     *)
(* the oldest entry and starts it in that same tick; no tick takes more    *)
(* than one entry from the queue.                                          *)
C4_DequeueInExpiryTick ==
    [][ AudioTick =>
         /\ (/\ tone_player.playing
             /\ now - tone_player.prev_time >= tone_player.prev_note_len_s
             /\ tone_player.note_queue # <<>>)
            => /\ tone_player'.playing
               /\ tone_player'.prev_note_len_s = Head(tone_player.note_queue)[2]
               /\ tone_player'.audio = Head(tone_player.note_queue)[1]
               /\ tone_player'.prev_time = now
               /\ tone_player'.note_queue = Tail(tone_player.note_queue)
         /\ Len(tone_player'.note_queue) >= Len(tone_player.note_queue) - 1
      ]_vars

(* A tick has stopped an expired note and started the next one, and the    *)
(* queue still holds a note                                                *)
C4_Witness ==
    /\ last_call.op = "tick"
    /\ tone_player.cmds # <<>>
    /\ tone_player.cmds[1] = "stop"
    /\ tone_player.began # <<>>
    /\ tone_player.playing
    /\ tone_player.prev_time = now
    /\ Len(tone_player.note_queue) >= 1

(* The note of the current playback slot: the last one started *)
CurrentNote == start_log[Len(start_log)]

Commands(a) == {a.cmds[i] : i \in 1..Len(a.cmds)}

(* C16: a rest, frequency 0, never makes the device play and still takes a *)
(* playback slot: requested while idle it sets playing with its duration,  *)
(* requested while busy it is queued, a tick that takes it from the queue  *)
(* starts its slot without a play command, and while its duration has not  *)
(* passed since it started no tick starts the note behind it.              *)
C16_RestOccupiesSlot ==
    /\ [][ \A d \in Durs :
             RequestNote(0, d)
             => /\ "play" \notin Commands(tone_player')
                /\ tone_player'.audio = tone_player.audio
                /\ tone_player'.playing
                /\ IF tone_player.playing
                   THEN /\ tone_player'.note_queue =
                              Append(tone_player.note_queue, <<0, d>>)
                        /\ tone_player'.prev_time = tone_player.prev_time
                        /\ tone_player'.prev_note_len_s = tone_player.prev_note_len_s
                        /\ tone_player'.began = <<>>
                   ELSE /\ tone_player'.prev_note_len_s = d
                        /\ tone_player'.prev_time = now
                        /\ tone_player'.note_queue = tone_player.note_queue
                        /\ tone_player'.began = << <<0, d>> >>
         ]_vars
    /\ [][ (AudioTick /\ tone_player'.began # <<>> /\ tone_player'.began[1][1] = 0)
           => /\ "play" \notin Commands(tone_player')
              /\ tone_player'.audio = 0
              /\ tone_player'.playing
              /\ tone_player'.prev_time = now
              /\ tone_player'.prev_note_len_s = tone_player'.began[1][2]
         ]_vars
    /\ [][ (/\ AudioTick
            /\ tone_player.playing
            /\ start_log # <<>>
            /\ CurrentNote[1] = 0
            /\ now - tone_player.prev_time < CurrentNote[2])
           => /\ tone_player'.began = <<>>
              /\ tone_player'.cmds = <<>>
              /\ tone_player'.playing
              /\ tone_player'.prev_time = tone_player.prev_time
              /\ tone_player'.note_queue = tone_player.note_queue
         ]_vars

(* A rest of two units is one unit old, the device is silent, a tone waits *)
(* behind the rest and a tick has left it in the queue                     *)
C16_Witness ==
    /\ last_call.op = "tick"
    /\ tone_player.playing
    /\ start_log # <<>>
    /\ CurrentNote = <<0, 2>>
    /\ tone_player.audio = 0
    /\ now = tone_player.prev_time + 1
    /\ tone_player.note_queue = << <<440, 1>> >>
    /\ tone_player.began = <<>>

(* C25: after every play_tone and every tick a non-empty note_queue comes  *)
(* with playing set: the scheduler is never idle with notes queued, and a  *)
(* request is queued only behind a note that is playing.                   *)
C25_PendingImpliesPlaying ==
    /\ [](tone_player.note_queue # <<>> => tone_player.playing)
    /\ [][ \A f \in Freqs, d \in Durs :
             (RequestNote(f, d)
                /\ Len(tone_player'.note_queue) > Len(tone_player.note_queue))
             => (tone_player.playing /\ tone_player'.playing)
         ]_vars
    /\ [][ AudioTick =>
             (tone_player'.note_queue # <<>> => tone_player'.playing)
         ]_vars

(* Two notes wait behind a playing one, the second just requested *)
C25_Witness ==
    /\ last_call.op = "play_tone"
    /\ Len(tone_player.note_queue) = 2
    /\ tone_player.playing
    /\ tone_player.began = <<>>

(* C26: when ticks keep coming as the clock advances and no further note   *)
(* is requested, every requested note gets started, in the order of the    *)
(* requests, and the scheduler ends idle: playing clear, note_queue empty, *)
(* the output device silent.  Checked under SpecDrain.                     *)
C26_QueueDrains ==
    <>[](/\ ~tone_player.playing
         /\ tone_player.note_queue = <<>>
         /\ tone_player.audio = 0
         /\ start_log = req_log)

(* Two notes were requested, the second one queued behind the first, and   *)
(* both have played out                                                    *)
C26_Witness ==
    /\ pc = "drain_sleep"
    /\ Len(req_log) = 2
    /\ req_log[2][1] > 0
    /\ start_log = req_log
    /\ tone_player.prev_time > RequestsUntil
    /\ ~tone_player.playing
    /\ tone_player.note_queue = <<>>
    /\ tone_player.audio = 0

----------------------------------------------------------------------------
(* Properties of the button checker, checked under SpecInput.  The callback *)
(* kinds "down", "up" and "long_press" are the events Pressed, Released and *)
(* LongPressed.                                                             *)

CheckStep == pc = "check" /\ pc' = "wait"

DebouncedNames ==
    {buttons[i].name : i \in {j \in 1..Len(buttons) : buttons[j].debounce}}

(* C5: a debounced button emits exactly one Pressed on the first tick of a *)
(* hold and none while the hold lasts, and exactly one Released on the     *)
(* first tick after the hold and none otherwise; so Pressed and Released   *)
(* alternate, starting with Pressed.                                       *)
C5_DebouncedEdges ==
    [][ CheckStep =>
          \A n \in DebouncedNames :
            /\ CountEmitted(events', n, "down") =
                 (IF hold_len[n] = 0 /\ hold_len'[n] = 1 THEN 1 ELSE 0)
            /\ CountEmitted(events', n, "up") =
                 (IF hold_len[n] > 0 /\ hold_len'[n] = 0 THEN 1 ELSE 0)
      ]_vars

(* Button B is in at least the third tick of a hold and the check emitted  *)
(* nothing for it                                                          *)
C5_Witness ==
    /\ pc = "wait"
    /\ hold_len["B"] = HoldCap
    /\ button_checker.prev_button_status["B"]
    /\ ~Emitted(events, "B", "down")
    /\ ~Emitted(events, "B", "up")

(* C6: a button that is not debounced emits Pressed on every tick that     *)
(* sees its bit set, whatever came before, and never emits Released.       *)
C6_DirectionRepeats ==
    [][ CheckStep =>
          \A n \in ButtonNames \ DebouncedNames :
            /\ CountEmitted(events', n, "down") =
                 (IF hold_len'[n] > 0 THEN 1 ELSE 0)
            /\ ~Emitted(events', n, "up")
      ]_vars

(* Right is in at least the third tick of a hold and Pressed was emitted *)
C6_Witness ==
    /\ pc = "wait"
    /\ hold_len["Right"] = HoldCap
    /\ Emitted(events, "Right", "down")

LongPressTime(n) == ConfiguredButtons[button_from_name(n)].long_press_time_s

(* C7: a long-press button held since the tick at t0 emits LongPressed     *)
(* exactly once within the first threshold of the hold: on the first tick  *)
(* with now - t0 >= long_press_time_s and on no earlier tick, whatever t0. *)
C7_LongPressAtThreshold ==
    pc = "wait" =>
      \A n \in LongPressNames :
        hold_start[n] # -1 =>
          /\ now - hold_start[n] < LongPressTime(n) => lp_count[n] = 0
          /\ (/\ now - hold_start[n] >= LongPressTime(n)
              /\ now - hold_start[n] < 2 * LongPressTime(n))
             => lp_count[n] = 1

(* The same statement for the holds that begin at a clock value above 0 *)
C7_HoldsAfterZero ==
    pc = "wait" =>
      \A n \in LongPressNames :
        (hold_start[n] # -1 /\ hold_start[n] > 0) =>
          /\ now - hold_start[n] < LongPressTime(n) => lp_count[n] = 0
          /\ (/\ now - hold_start[n] >= LongPressTime(n)
              /\ now - hold_start[n] < 2 * LongPressTime(n))
             => lp_count[n] = 1

(* C8: releasing a long-press button clears its anchor, and LongPressed is *)
(* only emitted in a hold that has itself lasted the full threshold: the   *)
(* time of an earlier, released hold does not count.                       *)
C8_NoLongPressBeforeThreshold ==
    [][ CheckStep =>
          \A n \in LongPressNames :
            /\ hold_len'[n] = 0 => button_checker'.long_press_status[n] = 0
            /\ Emitted(events', n, "long_press")
                 => /\ hold_start'[n] # -1
                    /\ now - hold_start'[n] >= LongPressTime(n)
            /\ (hold_start'[n] # -1 /\ now - hold_start'[n] < LongPressTime(n))
                 => lp_count'[n] = 0
      ]_vars

(* Select was released before its threshold: Released is emitted, the      *)
(* anchor is cleared and no long press fired                               *)
C8_Witness ==
    /\ pc = "wait"
    /\ Emitted(events, "Select", "up")
    /\ now >= 2
    /\ now < LongPressTime("Select")
    /\ button_checker.long_press_status["Select"] = 0
    /\ ~Emitted(events, "Select", "long_press")

(* A second hold of Select, begun after a release, fired its long press *)
C8_SecondHoldFires ==
    /\ pc = "wait"
    /\ Emitted(events, "Select", "long_press")
    /\ hold_start["Select"] >= 3

----------------------------------------------------------------------------
(* Properties of the long-press re-arming, checked under SpecHold *)

HoldStep == pc = "hold_check" /\ pc' = "hold_wait"

(* The threshold the Select button of the checker carries *)
Threshold(n) == button_checker.buttons[button_from_name(n)].long_press_time_s

(* C22: a long press clears the anchor, and while the button stays held    *)
(* the long press fires again, once per threshold and never continuously:  *)
(* two long presses of one hold are at least long_press_time_s apart, and  *)
(* however often the hold has fired, a check that finds the anchor set and *)
(* long_press_time_s old fires again.                                      *)
C22_LongPressRearms ==
    [][ HoldStep =>
          \A n \in LongPressNames :
            /\ Emitted(events', n, "long_press")
                 => /\ button_checker'.long_press_status[n] = 0
                    /\ CountEmitted(events', n, "long_press") = 1
                    /\ lp_last[n] # -1 /\ hold_start'[n] = hold_start[n]
                         => now - lp_last[n] >= Threshold(n)
            /\ (/\ hold_len'[n] > 0
                /\ button_checker.long_press_status[n] > 0
                /\ now - button_checker.long_press_status[n] >= Threshold(n))
                 => Emitted(events', n, "long_press")
            /\ (/\ hold_len[n] > 0 /\ hold_len'[n] > 0
                /\ button_checker.long_press_status[n] = 0)
                 => button_checker'.long_press_status[n] = now
      ]_vars

(* One hold of Select has fired its third long press *)
C22_Witness ==
    /\ pc = "hold_wait"
    /\ Emitted(events, "Select", "long_press")
    /\ lp_count["Select"] = 3
    /\ lp_last["Select"] = now
    /\ hold_start["Select"] # -1
    /\ button_checker.long_press_status["Select"] = 0

----------------------------------------------------------------------------
(* Properties of the shake detector, checked under Spec *)

Dispatched(what) == \E i \in 1..Len(sig) : sig[i] = what

(* C9: starting from shake_counter = 0, N = shake_ticks_to_activate        *)
(* consecutive shaking samples trigger on_shake on the N-th of them, not   *)
(* earlier and not later, and leave shake_counter at 0.                    *)
C9_TriggerOnTickN ==
    (pc = "sleep" /\ run > 0) =>
      /\ Dispatched("on_shake") <=> run = shake_ticks_to_activate
      /\ run = shake_ticks_to_activate => shake_counter = 0

(* C9 as the code has it: the trigger comes with the sample after the      *)
(* N-th, the (N + 1)-th consecutive shaking sample, and on no other sample *)
(* of the run; shake_counter is 0 after it.                                *)
C9_TriggerOnTickAfterN ==
    (pc = "sleep" /\ run > 0) =>
      /\ Dispatched("on_shake") <=> run = shake_ticks_to_activate + 1
      /\ run = shake_ticks_to_activate + 1 =>
            (shake_counter = 0 /\ drawer.blank)
      /\ run <= shake_ticks_to_activate => shake_counter = run

(* The (N + 1)-th consecutive shaking sample has triggered on_shake *)
C9_Witness ==
    /\ pc = "sleep"
    /\ run = shake_ticks_to_activate + 1
    /\ Dispatched("on_shake")
    /\ shake_counter = 0

ShakeStep == pc = "shake" /\ pc' = "sleep"

(* C10: up to shake_forgiveness - 1 consecutive calm samples inside a      *)
(* shake streak (shake_counter > 0) leave shake_counter unchanged and      *)
(* dispatch no led restore, tone or reset; the shaking sample that follows *)
(* counts on from the same shake_counter.                                  *)
C10_ForgivenessKeepsStreak ==
    [][ (ShakeStep /\ shake_counter > 0 /\ calm_run < shake_forgiveness - 1
           /\ ~is_shaking(prev_acc, prev_acc'))
        => /\ shake_counter' = shake_counter
           /\ sig' = <<>>
           /\ neopixel' = neopixel
           /\ drawer' = drawer
           /\ tone_player'.began = <<>>
           /\ tone_player'.note_queue = tone_player.note_queue
      ]_vars
    /\
    [][ (ShakeStep /\ shake_counter > 0 /\ calm_run > 0
           /\ calm_run <= shake_forgiveness - 1
           /\ is_shaking(prev_acc, prev_acc'))
        => /\ shake_counter' =
                 (IF shake_counter >= shake_ticks_to_activate
                  THEN 0 ELSE shake_counter + 1)
           /\ prev_num_leds' = countdown_leds(shake_counter)
      ]_vars

(* One calm sample has been read inside a shake streak and nothing was     *)
(* reset                                                                   *)
C10_Witness ==
    /\ pc = "sleep"
    /\ calm_run = 1
    /\ no_shake_counter = 1
    /\ shake_counter >= 2
    /\ sig = <<>>

(* C11: inside a shake streak (shake_counter > 0) the calm sample that     *)
(* makes the run of calm samples shake_forgiveness long resets             *)
(* shake_counter to 0 and restores the led strip to NUM_LEDS lit leds.     *)
C11_ResetOnForgivenessTick ==
    [][ (ShakeStep /\ shake_counter > 0 /\ calm_run = shake_forgiveness - 1
           /\ ~is_shaking(prev_acc, prev_acc'))
        => /\ shake_counter' = 0
           /\ \E i \in 1..Len(sig') : sig'[i] = "restore_leds"
           /\ neopixel'.led_count = NUM_LEDS
      ]_vars

(* What the code does instead: the reset and the restore come with the     *)
(* calm sample after that one, the (shake_forgiveness + 1)-th.             *)
C11_ResetOneTickLater ==
    [][ (ShakeStep /\ shake_counter > 0 /\ ~is_shaking(prev_acc, prev_acc'))
        => IF calm_run = shake_forgiveness
           THEN /\ shake_counter' = 0
                /\ sig' = <<"restore_leds">>
                /\ neopixel'.led_count = NUM_LEDS
           ELSE /\ shake_counter' = shake_counter
                /\ sig' = <<>>
      ]_vars

(* The third calm sample in a row has ended a shake streak *)
C11_Witness ==
    /\ pc = "sleep"
    /\ calm_run = shake_forgiveness + 1
    /\ sig = <<"restore_leds">>
    /\ shake_counter = 0
    /\ no_shake_counter = shake_forgiveness + 1
    /\ neopixel.led_count = NUM_LEDS
    /\ prev_num_leds < NUM_LEDS

(* The largest of |dx|, |dy|, |dz| between two samples *)
LargestDelta(p, q) ==
    Max(Abs(p[1] - q[1]), Max(Abs(p[2] - q[2]), Abs(p[3] - q[3])))

(* The step took the sample for a shaking one: it counted it, or it        *)
(* triggered on it                                                         *)
CountedAsShaking ==
    \/ shake_counter' = shake_counter + 1
    \/ \E i \in 1..Len(sig') : sig'[i] = "on_shake"

(* C17: a sample counts as shaking exactly when its largest axis delta     *)
(* against the previous sample is above ACCEL_SHAKE_THRESH; a largest      *)
(* delta equal to the threshold is calm.                                   *)
C17_ThresholdStrict ==
    [][ ShakeStep =>
          (CountedAsShaking <=>
             LargestDelta(prev_acc, prev_acc') > ACCEL_SHAKE_THRESH)
      ]_vars

(* C17 as the code has it: a sample counts as shaking exactly when its     *)
(* largest axis delta is at least ACCEL_SHAKE_THRESH; a largest delta      *)
(* equal to the threshold is shaking.                                      *)
C17_ThresholdInclusive ==
    [][ ShakeStep =>
          /\ CountedAsShaking <=>
                LargestDelta(prev_acc, prev_acc') >= ACCEL_SHAKE_THRESH
          /\ LargestDelta(prev_acc, prev_acc') >= ACCEL_SHAKE_THRESH
                => no_shake_counter' = 0
      ]_vars

(* A second shaking sample in a row was (8, 0, 10).  The sample before it  *)
(* was one of Samples, and the only ones at a distance from (8, 0, 10)     *)
(* that counts are (0, 0, 10) and (0, 0, 7): a largest delta of exactly 8. *)
C17_Witness ==
    /\ pc = "sleep"
    /\ prev_acc = <<8, 0, 10>>
    /\ run >= 2
    /\ shake_counter = run
    /\ \A q \in Samples :
          is_shaking(q, prev_acc) => LargestDelta(q, prev_acc) = ACCEL_SHAKE_THRESH

(* C18: the first sample is compared with itself: whatever it is, the      *)
(* first iteration of the loop detects no shake and leaves shake_counter   *)
(* at 0.  (prev_acc is (0, 0, 0) exactly until the first sample is read.)  *)
C18_FirstTickZeroDelta ==
    [][ (ShakeStep /\ prev_acc = <<0, 0, 0>>)
        => /\ ~CountedAsShaking
           /\ shake_counter' = 0
           /\ sig' = <<>>
      ]_vars

(* What the code does on the first iteration: the first sample is compared *)
(* with (0, 0, 0), and it counts as shaking when an axis reads 8 or more.  *)
C18_FirstTickAgainstZero ==
    [][ (ShakeStep /\ prev_acc = <<0, 0, 0>>)
        => /\ shake_counter' =
                 (IF LargestDelta(<<0, 0, 0>>, prev_acc') >= ACCEL_SHAKE_THRESH
                  THEN 1 ELSE 0)
           /\ sig' = <<>>
      ]_vars

(* floor(x / y) and ceiling(x / y) for x >= 0, y > 0 *)
Floor(x, y) == CHOOSE k \in 0..x : k * y <= x /\ x < (k + 1) * y
Ceiling(x, y) == CHOOSE k \in 0..x : (k - 1) * y < x /\ x <= k * y

Clamp(v, lo, hi) == IF v < lo THEN lo ELSE IF v > hi THEN hi ELSE v

(* C19: on a shaking sample, with shake_counter in                         *)
(* 0..shake_ticks_to_activate, the led count computed is                   *)
(* NUM_LEDS - floor((shake_counter / shake_ticks_to_activate) * NUM_LEDS), *)
(* clamped to 0..NUM_LEDS.                                                 *)
C19_CountdownFloorInside ==
    [][ (ShakeStep /\ CountedAsShaking)
        => /\ shake_counter \in 0..shake_ticks_to_activate
           /\ prev_num_leds' =
                 Clamp(NUM_LEDS - Floor(shake_counter * NUM_LEDS,
                                        shake_ticks_to_activate),
                       0, NUM_LEDS)
      ]_vars

(* C19 as the code has it: the difference is truncated, so the led count   *)
(* is floor(NUM_LEDS - (shake_counter / shake_ticks_to_activate) *         *)
(* NUM_LEDS), which is NUM_LEDS less the ceiling of the part taken off; it *)
(* lies in 0..NUM_LEDS.                                                    *)
C19_CountdownFloorOutside ==
    [][ (ShakeStep /\ CountedAsShaking)
        => /\ shake_counter \in 0..shake_ticks_to_activate
           /\ prev_num_leds' =
                 Clamp(NUM_LEDS - Ceiling(shake_counter * NUM_LEDS,
                                          shake_ticks_to_activate),
                       0, NUM_LEDS)
      ]_vars

(* The second shaking sample of a run found shake_counter = 1 and showed   *)
(* four leds                                                               *)
C19_Witness ==
    /\ pc = "sleep"
    /\ run = 2
    /\ shake_counter = 2
    /\ prev_num_leds = NUM_LEDS - 1
    /\ neopixel.led_count = NUM_LEDS - 1
    /\ sig = <<"countdown_leds", "countdown_tone">>

(* How often what is in the list of dispatches l *)
Times(l, what) == Cardinality({i \in 1..Len(l) : l[i] = what})

(* Notes the step handed to the tone scheduler: started or queued *)
NotesRequested ==
    Len(tone_player'.began) + Len(tone_player'.note_queue)
      - Len(tone_player.note_queue)

(* C20: on a shaking sample the countdown led update and exactly one       *)
(* countdown tone are dispatched if and only if the led count computed     *)
(* differs from prev_num_leds; when it is equal neither is dispatched; in  *)
(* both cases prev_num_leds becomes the led count computed.                *)
C20_FeedbackOnlyOnChange ==
    [][ (ShakeStep /\ CountedAsShaking)
        => LET ledCount == NUM_LEDS - Ceiling(shake_counter * NUM_LEDS,
                                              shake_ticks_to_activate)
               changed == ledCount # prev_num_leds
               triggered == Times(sig', "on_shake") = 1
           IN  /\ prev_num_leds' = ledCount
               /\ Times(sig', "countdown_leds") = (IF changed THEN 1 ELSE 0)
               /\ Times(sig', "countdown_tone") = (IF changed THEN 1 ELSE 0)
               /\ NotesRequested =
                     (IF changed THEN 1 ELSE 0) + (IF triggered THEN 3 ELSE 0)
               /\ (changed /\ ~triggered) => neopixel'.led_count = ledCount
               /\ (~changed /\ ~triggered) => neopixel' = neopixel
      ]_vars

(* The fifth shaking sample of a run found shake_counter = 4, took the     *)
(* led count from 4 to 3 and asked for one tone                            *)
C20_Witness ==
    /\ pc = "sleep"
    /\ run = 5
    /\ shake_counter = 5
    /\ prev_num_leds = 3
    /\ neopixel.led_count = 3
    /\ sig = <<"countdown_leds", "countdown_tone">>

(* The third shaking sample of a run found the led count unchanged and     *)
(* dispatched nothing                                                      *)
C20_UnchangedReached ==
    /\ pc = "sleep"
    /\ run = 3
    /\ shake_counter = 3
    /\ prev_num_leds = 4
    /\ sig = <<>>

(* The notes the step handed to the tone scheduler, in the order of the    *)
(* calls                                                                   *)
NotesHanded ==
    tone_player'.began \o
    SubSeq(tone_player'.note_queue, Len(tone_player.note_queue) + 1,
           Len(tone_player'.note_queue))

(* C21: a shaking sample that finds shake_counter >=                       *)
(* shake_ticks_to_activate dispatches the trigger only: the tune G5, E5,   *)
(* C5, the canvas reset and the full led strip; no countdown led update    *)
(* and no countdown tone come with it.                                     *)
C21_TriggerOnly ==
    [][ (/\ ShakeStep
         /\ shake_counter >= shake_ticks_to_activate
         /\ LargestDelta(prev_acc, prev_acc') >= ACCEL_SHAKE_THRESH)
        => /\ sig' = <<"on_shake">>
           /\ NotesHanded = << <<783, 2>>, <<659, 2>>, <<523, 2>> >>
           /\ drawer'.blank
           /\ neopixel'.led_count = NUM_LEDS
           /\ shake_counter' = 0
      ]_vars

(* The trigger has been dispatched on a sample that found the countdown at *)
(* zero leds already                                                       *)
C21_Witness ==
    /\ pc = "sleep"
    /\ sig = <<"on_shake">>
    /\ prev_num_leds = 0
    /\ neopixel.led_count = NUM_LEDS
    /\ drawer.blank
    /\ shake_counter = 0
    /\ no_shake_counter = 0

(* C27: once the loop runs, prev_num_leds is the lit count most recently   *)
(* written to the led strip, whatever shaking samples, calm samples,       *)
(* forgiveness resets, triggers and colour rotations came before.          *)
C27_PrevLedsTracksStrip ==
    pc # "startup" => prev_num_leds = neopixel.led_count

(* What follows from the gap in the code: a shake resumed after a full-led *)
(* restore finds prev_num_leds below NUM_LEDS and asks for a countdown     *)
(* tone for the full count.  The negation of this state is violated.       *)
C27_NoToneForFullCount ==
    ~(/\ pc = "sleep"
      /\ sig = <<"countdown_leds", "countdown_tone">>
      /\ prev_num_leds = NUM_LEDS
      /\ shake_counter = 1)

----------------------------------------------------------------------------
(* Properties of play_note, checked under SpecNotes *)

(* C12: play_note returns normally for every note string of at most three  *)
(* characters, the empty string, an unknown letter and a string whose last *)
(* character is no digit included: no exception escapes it, and a note it  *)
(* does not know is scheduled as a rest, frequency 0.                      *)
C12_PlayNoteNeverRaises ==
    (last_call.op = "play_note" /\ Len(last_call.note) <= 3)
    => /\ ~tone_player.raised
       /\ last_call.note \in {<<>>, <<"H", "5">>, <<"C", "#">>}
            => last_call.freq = 0

(* The strings of at most three characters that do not end in a letter or  *)
(* a sharp behind a first character are played or scheduled as a rest      *)
C12_DigitEndedNeverRaises ==
    (last_call.op = "play_note" /\ Len(last_call.note) <= 3
        /\ (Len(last_call.note) > 1 =>
               IsDigit(last_call.note[Len(last_call.note)])))
    => /\ ~tone_player.raised
       /\ last_call.freq >= 0
       /\ last_call.note \in {<<>>, <<"H", "5">>} => last_call.freq = 0
       /\ last_call.note = <<"a", "#", "4">> => last_call.freq = 466

(* C13: play_note of a string of more than three characters starts and     *)
(* queues nothing: playing, prev_time, prev_note_len_s, note_queue and the *)
(* output device are what they were, and the device got no command.        *)
C13_LongStringRejected ==
    [][ \A s \in NoteStrings, d \in Durs :
          (PlayNote(s, d) /\ Len(s) > 3)
          => /\ Playback(tone_player') = Playback(tone_player)
             /\ tone_player'.cmds = <<>>
             /\ tone_player'.began = <<>>
             /\ ~tone_player'.raised
      ]_vars

(* "C#55" has been handed to play_note while a note was sounding *)
C13_Witness ==
    /\ last_call.op = "play_note"
    /\ last_call.note = <<"C", "#", "5", "5">>
    /\ last_call.freq = -1
    /\ tone_player.playing
    /\ tone_player.audio > 0
    /\ tone_player.note_queue = <<>>

(* C14: "A4" is given the reference key 49, 440 Hz, and "C5" the key 15    *)
(* semitones above it.                                                     *)
C14_C5FifteenSemitonesUp ==
    /\ (last_call.op = "play_note" /\ last_call.note = <<"A", "4">>)
         => last_call.freq = 440
    /\ (last_call.op = "play_note" /\ last_call.note = <<"C", "5">>)
         => last_call.freq = KeyFrequency[(49 + 15) + 9]

(* C14 as the code has it: "A4" is given the reference key 49, 440 Hz, and *)
(* "C5" the key three semitones above it, 523 Hz.                          *)
C14_C5ThreeSemitonesUp ==
    /\ (last_call.op = "play_note" /\ last_call.note = <<"A", "4">>)
         => last_call.freq = 440
    /\ (last_call.op = "play_note" /\ last_call.note = <<"C", "5">>)
         => (last_call.freq = KeyFrequency[(49 + 3) + 9] /\ last_call.freq = 523)

(* "A4" and then "C5" have been played: A4 sounds, C5 waits behind it *)
C14_Witness ==
    /\ last_call.op = "play_note"
    /\ last_call.note = <<"C", "5">>
    /\ tone_player.audio = 440
    /\ tone_player.note_queue = << <<523, 1>> >>

----------------------------------------------------------------------------
(* Properties of the led strip, checked under SpecLeds *)

(* 5 % of a channel, truncated: 255 gives 12, 180 gives 9, 19 gives 0 *)
Dimmed(c) == CHOOSE k \in 0..c : 20 * k <= c /\ c < 20 * (k + 1)

(* C15: show_color_on_leds(color_rgb, led_count) with led_count in         *)
(* 0..NUM_LEDS writes 3 * NUM_LEDS bytes; the first led_count triples are  *)
(* (green, red, blue) of color_rgb, each channel scaled by the brightness  *)
(* and truncated, and the other NUM_LEDS - led_count triples are zero.     *)
C15_LedPacking ==
    LET c == neopixel.color_rgb
        lit == neopixel.led_count
    IN  /\ DOMAIN neopixel.pix = 1..(3 * NUM_LEDS)
        /\ \A led \in 1..NUM_LEDS :
              <<neopixel.pix[3 * led - 2], neopixel.pix[3 * led - 1],
                neopixel.pix[3 * led]>>
              = IF led <= lit
                THEN <<Dimmed(c[2]), Dimmed(c[1]), Dimmed(c[3])>>
                ELSE <<0, 0, 0>>

(* [255, 0, 0] with 3 of the 5 leds lit *)
C15_Witness ==
    /\ pc = "leds"
    /\ neopixel.color_rgb = <<255, 0, 0>>
    /\ neopixel.led_count = 3
    /\ neopixel.pix = [i \in 1..15 |-> IF i \in {2, 5, 8} THEN 12 ELSE 0]

----------------------------------------------------------------------------
(* Properties of the cursor, checked under SpecDraw *)

(* C23: after any sequence of moves, size rotations and resets the cursor  *)
(* square lies inside the canvas: 0 <= x, x + cur_cursor_size <= width,    *)
(* 0 <= y, y + cur_cursor_size <= height.                                  *)
C23_CursorInsideCanvas ==
    /\ 0 <= drawer.cur_pos[1]
    /\ drawer.cur_pos[1] + drawer.cur_cursor_size <= DisplayWidth
    /\ 0 <= drawer.cur_pos[2]
    /\ drawer.cur_pos[2] + drawer.cur_cursor_size <= DisplayHeight

(* What the code keeps: the top-left corner of the cursor is on the        *)
(* canvas, and the square is inside it unless a rotation at the edge has   *)
(* just grown it.                                                          *)
C23_CornerOnCanvas ==
    /\ drawer.cur_pos[1] \in 0..(DisplayWidth - 1)
    /\ drawer.cur_pos[2] \in 0..(DisplayHeight - 1)
    /\ drawer.cur_cursor_size = cursor_sizes[drawer.cur_cursor_idx + 1]

----------------------------------------------------------------------------
(* Properties of try_connect, checked under SpecWireless *)

(* Failures after which every reading of "more than max_tries = 3 tries"   *)
(* has given up                                                            *)
GiveUpAfter == 3 + 2

(* C24: a call of try_connect in which connect_AP keeps raising            *)
(* RuntimeError gives up: once the failures exceed the maximum number of   *)
(* tries the call has returned False, with connected left False, whatever  *)
(* log is.                                                                 *)
C24_GivesUp ==
    (wireless.calls = 1 /\ wireless.failed >= GiveUpAfter /\ ~wireless.is_connected)
    => /\ ~wireless.in_call
       /\ wireless.result = "False"
       /\ ~wireless.connected

(* What the code does: max_tries stays 3, the call never returns False and *)
(* stays in its loop until connect_AP succeeds; connected is set only by a *)
(* call that returned True.                                                *)
C24_NeverGivesUp ==
    /\ wireless.in_call => wireless.max_tries = 3
    /\ wireless.result # "False"
    /\ (wireless.in_call /\ ~wireless.is_connected) => wireless.result = None_result
    /\ (wireless.calls = 1 /\ wireless.in_call) => ~wireless.connected

====
